---- MODULE Spec2Model ----
(***************************************************************************)
(* Model of hot_run.py: a supervisor that installs a SIGINT handler, runs  *)
(* a one-shot build, launches two children (watcher, run), and busy-polls  *)
(* them until one exits; it then calls terminate() on every handle of the  *)
(* list and exits with the polled code.                                    *)
(*                                                                         *)
(* An optional value (Python's None or an int) is a sequence of length 0   *)
(* or 1: None is <<>>, the integer n is <<n>>.                             *)
(***************************************************************************)
EXTENDS Integers, Sequences, FiniteSets, TLC

VARIABLES
    pc,               \* position of the supervisor's thread of control
    handlerInstalled, \* signal.signal(SIGINT, signal_handler) has run
    sigPending,       \* a SIGINT was delivered, its Python handler has not run yet
    build,            \* the one-shot build: "none","running","finished","killed","missing"
    buildCode,        \* the build's exit code (None until it finishes)
    procState,        \* per child: "unstarted","running","exited","failed"
    exitStatus,       \* per child: the OS exit status (None while not exited)
    processes,        \* the list bound to the name `processes`
    idx,              \* position of the outer `for p in processes` iterator
    j,                \* position of the inner `for p in processes` iterator
    p,                \* the loop variable p (None before the first iteration)
    code,             \* the variable `code`
    termCalled,       \* per child: terminate() was invoked on its handle
    sigterm,          \* per child: SIGTERM was actually sent to the process
    exitCode,         \* the supervisor's exit code (None while it runs)
    exitHow,          \* "none","poll","interrupt","fault"
    exitOrder,        \* history: the children in the order they exited in time
    interrupted,      \* history: a SIGINT was delivered to the supervisor
    sigClean          \* history: that SIGINT arrived, handler installed, before any child exit

vars == <<pc, handlerInstalled, sigPending, build, buildCode, procState,
          exitStatus, processes, idx, j, p, code, termCalled, sigterm,
          exitCode, exitHow, exitOrder, interrupted, sigClean>>

None == <<>>

Some(n) == <<n>>

Children == {"watcher", "run"}

\* exit codes a child may exit with on its own
ExitCodes == {0, 1, 2, 127}

\* exit codes of the one-shot build
BuildCodes == {0, 1}

ProcessList_Swapped == <<"run", "watcher">>

\* the list literal of lines 12-15, in launch order
ProcessList == <<"watcher", "run">>

Init ==
    /\ pc = "install"
    /\ handlerInstalled = FALSE
    /\ sigPending = FALSE
    /\ build = "none"
    /\ buildCode = None
    /\ procState = [c \in Children |-> "unstarted"]
    /\ exitStatus = [c \in Children |-> None]
    /\ processes = <<>>
    /\ idx = 0
    /\ j = 0
    /\ p = None
    /\ code = None
    /\ termCalled = [c \in Children |-> FALSE]
    /\ sigterm = [c \in Children |-> FALSE]
    /\ exitCode = None
    /\ exitHow = "none"
    /\ exitOrder = <<>>
    /\ interrupted = FALSE
    /\ sigClean = FALSE

Runs_SignalDeferred(at) == pc = at

\* the supervisor's thread runs its next statement only when no Python-level
\* signal handler is waiting to run
Runs(at) == pc = at /\ ~sigPending

AnyExited == \E c \in Children : procState[c] = "exited"

\* an exception nobody catches: traceback, exit status 1
Fault ==
    /\ pc' = "done"
    /\ exitHow' = "fault"
    /\ exitCode' = Some(1)

InstallHandler_Skipped ==
    /\ Runs("install")
    /\ pc' = "build"
    /\ UNCHANGED <<handlerInstalled, sigPending, build, buildCode, procState,
                   exitStatus, processes, idx, j, p, code, termCalled, sigterm,
                   exitCode, exitHow, exitOrder, interrupted, sigClean>>

\* line 8: signal.signal(signal.SIGINT, signal_handler)
InstallHandler ==
    /\ Runs("install")
    /\ handlerInstalled' = TRUE
    /\ pc' = "build"
    /\ UNCHANGED <<sigPending, build, buildCode, procState, exitStatus,
                   processes, idx, j, p, code, termCalled, sigterm, exitCode,
                   exitHow, exitOrder, interrupted, sigClean>>

\* the environment delivers SIGINT to the running supervisor.  With the
\* handler installed the Python-level handler becomes pending; before line 8
\* the default disposition (KeyboardInterrupt) ends the process.
DeliverSigint ==
    /\ pc # "done"
    /\ ~interrupted
    /\ interrupted' = TRUE
    /\ IF handlerInstalled
       THEN /\ sigPending' = TRUE
            /\ sigClean' = ~AnyExited
            /\ UNCHANGED <<pc, exitHow, exitCode>>
       ELSE /\ pc' = "done"
            /\ exitHow' = "fault"
            /\ exitCode' = Some(130)
            /\ UNCHANGED <<sigPending, sigClean>>
    /\ UNCHANGED <<handlerInstalled, build, buildCode, procState, exitStatus,
                   processes, idx, j, p, code, termCalled, sigterm, exitOrder>>

HandlerExitArg_One == Some(1)

\* line 6: the argument of the handler's sys.exit
HandlerExitArg == Some(0)

signal_handler_Cleanup ==
    /\ sigPending
    /\ pc # "done"
    /\ sigPending' = FALSE
    /\ pc' = "done"
    /\ exitHow' = "interrupt"
    /\ exitCode' = HandlerExitArg
    /\ build' = IF build = "running" THEN "killed" ELSE build
    /\ termCalled' = [c \in Children |->
                        termCalled[c] \/ procState[c] \in {"running", "exited"}]
    /\ sigterm' = [c \in Children |-> sigterm[c] \/ procState[c] = "running"]
    /\ UNCHANGED <<handlerInstalled, buildCode, procState, exitStatus,
                   processes, idx, j, p, code, exitOrder, interrupted, sigClean>>

\* lines 5-6: sys.exit(0); a build being waited for is killed by
\* subprocess.run as the SystemExit passes through it
signal_handler ==
    /\ sigPending
    /\ pc # "done"
    /\ sigPending' = FALSE
    /\ pc' = "done"
    /\ exitHow' = "interrupt"
    /\ exitCode' = HandlerExitArg
    /\ build' = IF build = "running" THEN "killed" ELSE build
    /\ UNCHANGED <<handlerInstalled, buildCode, procState, exitStatus,
                   processes, idx, j, p, code, termCalled, sigterm, exitOrder,
                   interrupted, sigClean>>

\* line 10: subprocess.run(["cargo", "build"]) starts the build and blocks
BuildStart ==
    /\ Runs("build")
    /\ build' = "running"
    /\ pc' = "build_wait"
    /\ UNCHANGED <<handlerInstalled, sigPending, buildCode, procState,
                   exitStatus, processes, idx, j, p, code, termCalled, sigterm,
                   exitCode, exitHow, exitOrder, interrupted, sigClean>>

BuildStartFailure_Ignored ==
    /\ pc' = "launch1"
    /\ UNCHANGED <<exitHow, exitCode>>

\* line 10: what a subprocess.run that cannot start its command does to the
\* supervisor: it raises (FileNotFoundError) and nothing catches it
BuildStartFailure == Fault

\* line 10: the build command is missing
BuildMissing ==
    /\ Runs("build")
    /\ build' = "missing"
    /\ BuildStartFailure
    /\ UNCHANGED <<handlerInstalled, sigPending, buildCode, procState,
                   exitStatus, processes, idx, j, p, code, termCalled, sigterm,
                   exitOrder, interrupted, sigClean>>

AfterBuild_FailFast(n) == IF n = 0 THEN "launch1" ELSE "done"

\* line 10: where the supervisor goes when the build has ended with code n:
\* the CompletedProcess is discarded (no check=True, no returncode test)
AfterBuild(n) == "launch1"

\* line 10: the build runs to completion with some exit code and
\* subprocess.run returns
BuildFinish ==
    /\ Runs("build_wait")
    /\ build = "running"
    /\ \E n \in BuildCodes :
          /\ buildCode' = Some(n)
          /\ pc' = AfterBuild(n)
    /\ build' = "finished"
    /\ UNCHANGED <<handlerInstalled, sigPending, procState, exitStatus,
                   processes, idx, j, p, code, termCalled, sigterm, exitCode,
                   exitHow, exitOrder, interrupted, sigClean>>

\* line 13: subprocess.Popen(["cargo", "watch", ...]) succeeds
LaunchWatcher ==
    /\ Runs("launch1")
    /\ procState' = [procState EXCEPT !["watcher"] = "running"]
    /\ pc' = "launch2"
    /\ UNCHANGED <<handlerInstalled, sigPending, build, buildCode, exitStatus,
                   processes, idx, j, p, code, termCalled, sigterm, exitCode,
                   exitHow, exitOrder, interrupted, sigClean>>

\* lines 12-15: subprocess.Popen(["cargo", "run"]) succeeds, the list of the
\* two handles is built and bound to `processes`; line 17-18: the loop starts
LaunchRun ==
    /\ Runs("launch2")
    /\ procState' = [procState EXCEPT !["run"] = "running"]
    /\ processes' = ProcessList
    /\ idx' = 1
    /\ pc' = "poll"
    /\ UNCHANGED <<handlerInstalled, sigPending, build, buildCode, exitStatus,
                   j, p, code, termCalled, sigterm, exitCode, exitHow,
                   exitOrder, interrupted, sigClean>>

LaunchFailure_Retry == UNCHANGED <<pc, exitHow, exitCode>>

\* lines 13-14: what a Popen that raises does to the supervisor: there is no
\* try/except and no retry, the exception ends the process
LaunchFailure == Fault

LaunchFail_Cleanup(c) ==
    /\ \/ c = "watcher" /\ Runs("launch1")
       \/ c = "run" /\ Runs("launch2")
    /\ procState' = [procState EXCEPT ![c] = "failed"]
    /\ LaunchFailure
    /\ termCalled' = [d \in Children |->
                        termCalled[d] \/ procState[d] \in {"running", "exited"}]
    /\ sigterm' = [d \in Children |-> sigterm[d] \/ procState[d] = "running"]
    /\ UNCHANGED <<handlerInstalled, sigPending, build, buildCode, exitStatus,
                   processes, idx, j, p, code, exitOrder, interrupted, sigClean>>

\* lines 13-14: Popen of child c raises (command not found)
LaunchFail(c) ==
    /\ \/ c = "watcher" /\ Runs("launch1")
       \/ c = "run" /\ Runs("launch2")
    /\ procState' = [procState EXCEPT ![c] = "failed"]
    /\ LaunchFailure
    /\ UNCHANGED <<handlerInstalled, sigPending, build, buildCode, exitStatus,
                   processes, idx, j, p, code, termCalled, sigterm, exitOrder,
                   interrupted, sigClean>>

\* line 19: p.poll() of handle h: the exit status if the process has ended,
\* None otherwise (non-blocking)
poll(h) == IF procState[h] = "exited" THEN exitStatus[h] ELSE None

Detected_Truthy(c) == c # None /\ c # Some(0)

\* line 20: `code != None`
Detected(c) == c # None

PollOrder_Reversed == <<processes[2], processes[1]>>

\* line 18: the handles the outer loop visits, in the order it visits them
PollOrder == processes

\* lines 17-20: one iteration of the outer for loop: bind p, poll it, test
\* the code; at the end of the list `while True` starts the next pass
PollStep ==
    /\ Runs("poll")
    /\ LET h == PollOrder[idx]
           c == poll(h)
       IN /\ p' = Some(h)
          /\ code' = c
          /\ IF Detected(c)
             THEN /\ pc' = "term"
                  /\ j' = 1
                  /\ idx' = idx
             ELSE /\ pc' = "poll"
                  /\ idx' = IF idx < Len(processes) THEN idx + 1 ELSE 1
                  /\ j' = j
    /\ UNCHANGED <<handlerInstalled, sigPending, build, buildCode, procState,
                   exitStatus, processes, termCalled, sigterm, exitCode,
                   exitHow, exitOrder, interrupted, sigClean>>

TerminateList_OnlyPolled == <<processes[idx]>>

TerminateList_Others == SelectSeq(processes, LAMBDA h : h # processes[idx])

\* line 21: the handles the inner loop visits: all of `processes`
TerminateList == processes

\* line 22: p.terminate() on handle h: the method is invoked; SIGTERM is
\* sent only to a process that has not ended
TerminateCalled(h) == [termCalled EXCEPT ![h] = TRUE]

SigtermSent(h) == [sigterm EXCEPT ![h] = @ \/ procState[h] = "running"]

\* lines 21-22: one iteration of the inner for loop (it rebinds p)
TerminateStep ==
    /\ Runs("term")
    /\ IF j <= Len(TerminateList)
       THEN LET h == TerminateList[j]
            IN /\ p' = Some(h)
               /\ termCalled' = TerminateCalled(h)
               /\ sigterm' = SigtermSent(h)
               /\ j' = j + 1
               /\ pc' = "term"
       ELSE /\ pc' = "exit"
            /\ UNCHANGED <<p, termCalled, sigterm, j>>
    /\ UNCHANGED <<handlerInstalled, sigPending, build, buildCode, procState,
                   exitStatus, processes, idx, code, exitCode, exitHow,
                   exitOrder, interrupted, sigClean>>

ExitArg_Flattened == IF code = Some(0) THEN code ELSE Some(1)

ExitArg_FromLoopVariable == IF p = None THEN code ELSE poll(p[1])

\* line 23: the argument of sys.exit
ExitArg == code

Exit_AfterWait ==
    /\ Runs("exit")
    /\ \A c \in Children : procState[c] # "running"
    /\ exitCode' = ExitArg
    /\ exitHow' = "poll"
    /\ pc' = "done"
    /\ UNCHANGED <<handlerInstalled, sigPending, build, buildCode, procState,
                   exitStatus, processes, idx, j, p, code, termCalled, sigterm,
                   exitOrder, interrupted, sigClean>>

\* line 23: sys.exit(code)
Exit ==
    /\ Runs("exit")
    /\ exitCode' = ExitArg
    /\ exitHow' = "poll"
    /\ pc' = "done"
    /\ UNCHANGED <<handlerInstalled, sigPending, build, buildCode, procState,
                   exitStatus, processes, idx, j, p, code, termCalled, sigterm,
                   exitOrder, interrupted, sigClean>>

\* a running child ends: on its own with a code of ExitCodes, or, once
\* SIGTERM was sent to it, killed by it (Popen reports -15).  Children are
\* separate OS processes: they may end at any time, also after the supervisor.
ChildExit(c) ==
    /\ procState[c] = "running"
    /\ \E n \in ExitCodes \cup (IF sigterm[c] THEN {-15} ELSE {}) :
          exitStatus' = [exitStatus EXCEPT ![c] = Some(n)]
    /\ procState' = [procState EXCEPT ![c] = "exited"]
    /\ exitOrder' = Append(exitOrder, c)
    /\ UNCHANGED <<pc, handlerInstalled, sigPending, build, buildCode,
                   processes, idx, j, p, code, termCalled, sigterm, exitCode,
                   exitHow, interrupted, sigClean>>

\* the steps of the supervisor's own thread of control
Supervisor ==
    \/ InstallHandler
    \/ BuildStart
    \/ BuildMissing
    \/ BuildFinish
    \/ LaunchWatcher
    \/ LaunchRun
    \/ \E c \in Children : LaunchFail(c)
    \/ PollStep
    \/ TerminateStep
    \/ Exit
    \/ signal_handler

Next ==
    \/ Supervisor
    \/ DeliverSigint
    \/ \E c \in Children : ChildExit(c)

Spec == Init /\ [][Next]_vars

\* the busy-poll loop never blocks: the supervisor's thread keeps running
FairSpec == Spec /\ WF_vars(Supervisor)

----------------------------------------------------------------------------
(* Properties *)

\* the supervisor is inside the supervise loop (lines 17-23)
InLoop == pc \in {"poll", "term", "exit"}

\* the handle whose poll returned non-null (the outer iterator's position)
DetectedHandle == processes[idx]

BothRunning == \A c \in Children : procState[c] = "running"

\* C1: with no interrupt, the supervisor's exit code is the exit code of the
\* child that terminated first in time, whatever the interleaving of child
\* exits and polls.
C1_FirstInTimeCodeWins ==
    (pc = "done" /\ exitHow = "poll" /\ ~interrupted)
        => exitCode = exitStatus[exitOrder[1]]

\* C2 (as stated): whenever a child has exited and the supervisor then exits,
\* the other child has had terminate() invoked before that exit, whatever
\* the timing of an interrupt.
C2_OtherTerminatedOnAnyExit ==
    [][(InLoop /\ pc' = "done")
          => \A c \in Children : procState[c] = "exited"
                => \A d \in Children \ {c} : termCalled'[d]]_vars

\* C2 (amended): whenever the supervisor exits because a poll reported a
\* child's exit, a child has exited and terminate() has been invoked on the
\* other child (on every handle) before the supervisor's exit.
C2_OtherTerminatedOnPollExit ==
    [][(pc # "done" /\ pc' = "done" /\ exitHow' = "poll")
          => /\ \E c \in Children : procState[c] = "exited"
             /\ \A c \in Children : procState[c] = "exited"
                   => \A d \in Children \ {c} : termCalled[d]]_vars

C2_Witness ==
    /\ pc = "done"
    /\ exitHow = "poll"
    /\ procState["watcher"] = "exited"
    /\ procState["run"] = "running"
    /\ termCalled["run"]

\* C3: a SIGINT delivered, with the handler installed, before either child
\* has exited makes the supervisor exit, and with code 0 (also when a child
\* exits between the delivery and the handler's run).
C3_InterruptExitsZero ==
    /\ [](sigClean /\ pc = "done" => exitCode = Some(0) /\ exitHow = "interrupt")
    /\ (sigClean ~> pc = "done")

C3_Witness ==
    /\ sigClean
    /\ pc = "done"
    /\ exitCode = Some(0)
    /\ BothRunning
    /\ processes = <<"watcher", "run">>

\* C4: the build's exit code never affects the supervisor: at the point the
\* build ends, every exit code leads to the same continuation (the launch
\* of the children), and the step that records the code changes nothing
\* else of the supervisor.
C4_BuildCodeIgnored ==
    /\ [](pc = "build_wait"
            => \A n, m \in BuildCodes :
                  AfterBuild(n) = AfterBuild(m) /\ AfterBuild(n) = "launch1")
    /\ [][buildCode' # buildCode
            => /\ pc' = "launch1"
               /\ build' = "finished"
               /\ UNCHANGED <<handlerInstalled, sigPending, procState,
                              exitStatus, processes, idx, j, p, code,
                              termCalled, sigterm, exitCode, exitHow>>]_vars

C4_Witness ==
    /\ buildCode = Some(1)
    /\ pc = "done"
    /\ exitHow = "poll"
    /\ exitCode = Some(0)

\* C5 (as stated): a build command that cannot be started is ignored like a
\* non-zero build exit code: the supervisor goes on to launch the children.
C5_MissingBuildIgnored ==
    [][build # "missing" /\ build' = "missing" => pc' = "launch1"]_vars

\* C5 (amended): a build command that cannot be started crashes the
\* supervisor with an unhandled fault before any child is launched; the
\* supervise loop is never entered.
C5_MissingBuildFaults ==
    build = "missing"
        => /\ pc = "done"
           /\ exitHow = "fault"
           /\ exitCode = Some(1)
           /\ \A c \in Children : procState[c] = "unstarted"
           /\ processes = <<>>
           /\ idx = 0

C5_Witness == build = "missing" /\ pc = "done"

\* C6: under fair scheduling of the supervisor, once a child has exited
\* while the supervisor is in its loop, the supervisor eventually has
\* invoked terminate() on the children and exited through the poll path,
\* unless an interrupt is delivered; the other child need never exit.
C6_ExitAfterChildExit ==
    [](AnyExited /\ InLoop
         => <>(\/ interrupted
               \/ /\ pc = "done"
                  /\ exitHow = "poll"
                  /\ \A c \in Children : termCalled[c]))

C6_Witness ==
    /\ pc = "done"
    /\ exitHow = "poll"
    /\ exitCode = Some(0)
    /\ procState["run"] = "exited"
    /\ procState["watcher"] = "running"
    /\ termCalled["watcher"]
    /\ ~interrupted

\* C7: from the completion of both launches until the supervisor exits the
\* process list is exactly <<watcher, run>>, and no step changes the list
\* once it is bound.
C7_ProcessListFixed ==
    /\ []((\A c \in Children : procState[c] \in {"running", "exited"})
            /\ pc # "done"
          => processes = <<"watcher", "run">>)
    /\ [](InLoop => processes = <<"watcher", "run">>)
    /\ [][processes # <<>> => processes' = processes]_vars

C7_Witness ==
    /\ pc = "term"
    /\ j = 3
    /\ processes = <<"watcher", "run">>
    /\ \A c \in Children : termCalled[c]

\* C8: a child launch that fails ends the supervisor with an unhandled
\* fault: the loop is never entered, the launch is never retried, and the
\* exit is neither the poll path nor the interrupt path.
C8_LaunchFailureFaults ==
    /\ [](\A c \in Children :
            procState[c] = "failed"
               => /\ pc = "done"
                  /\ exitHow = "fault"
                  /\ exitCode = Some(1)
                  /\ processes = <<>>
                  /\ idx = 0
                  /\ code = None
                  /\ \A d \in Children : ~termCalled[d])
    /\ [][\A c \in Children :
            procState[c] = "failed" => procState'[c] = "failed"]_vars

C8_Witness ==
    /\ procState["run"] = "failed"
    /\ procState["watcher"] = "running"
    /\ pc = "done"

\* C9: the loop is left only by the interrupt handler (exit code 0) or by
\* a poll that returned non-null (exit with that code, zero or not); a poll
\* of an exited handle always leaves the polling; while both children run
\* and no interrupt was delivered the supervisor neither exits nor invokes
\* terminate().
C9_LoopExits ==
    /\ [][InLoop /\ pc' = "done"
            => \/ interrupted /\ exitHow' = "interrupt" /\ exitCode' = Some(0)
               \/ /\ exitHow' = "poll"
                  /\ code # None
                  /\ code = exitStatus[DetectedHandle]
                  /\ exitCode' = code]_vars
    /\ [][pc = "poll" /\ (pc' = "term" \/ idx' # idx)
            => IF procState[DetectedHandle] = "exited"
               THEN pc' = "term" /\ code' = exitStatus[DetectedHandle]
               ELSE pc' = "poll" /\ code' = None]_vars
    /\ [](BothRunning /\ ~interrupted
            => pc # "done" /\ \A c \in Children : ~termCalled[c])

C9_Witness ==
    /\ pc = "done"
    /\ exitHow = "poll"
    /\ exitCode = Some(127)
    /\ ~interrupted

\* C10 (as stated): when a poll finds an exited handle, terminate() is
\* invoked on every other handle and not on the exited handle itself.
C10_OnlyOthersTerminated ==
    (pc = "done" /\ exitHow = "poll")
        => /\ \A h \in Children \ {DetectedHandle} : termCalled[h]
           /\ ~termCalled[DetectedHandle]

\* C10 (amended): when a poll finds an exited handle, terminate() is
\* invoked on every handle of the list, in list order, the exited handle
\* included; no signal is sent to the exited handle.
C10_AllTerminated ==
    /\ [](pc = "exit" \/ (pc = "done" /\ exitHow = "poll")
            => /\ \A h \in Children : termCalled[h]
               /\ ~sigterm[DetectedHandle])
    /\ [](termCalled["run"] => termCalled["watcher"])
    /\ [][(\E h \in Children : termCalled'[h] # termCalled[h])
            => pc = "term" /\ procState[DetectedHandle] = "exited"]_vars

C10_Witness ==
    /\ pc = "done"
    /\ exitHow = "poll"
    /\ DetectedHandle = "run"
    /\ termCalled["run"]
    /\ termCalled["watcher"]
    /\ sigterm["watcher"]

\* C11: every pass polls the watcher first and run second; the supervisor
\* exits with the code of the first handle, in that order, whose poll
\* returned non-null; a pass that starts with both children exited ends
\* with the watcher's code, whichever child exited earlier in time.
C11_ListOrderDecides ==
    /\ [](pc = "poll" /\ idx = 2 => p = Some("watcher") /\ code = None)
    /\ [](pc = "poll" => idx \in {1, 2})
    /\ [][pc = "poll" /\ idx' # idx
            => (idx = 1 /\ idx' = 2) \/ (idx = 2 /\ idx' = 1)]_vars
    /\ [][pc = "poll" /\ pc' = "term"
            => /\ p' = Some(processes[idx])
               /\ code' = exitStatus[processes[idx]]
               /\ idx' = idx]_vars
    /\ [][(/\ pc = "poll"
           /\ idx = 1
           /\ \A c \in Children : procState[c] = "exited"
           /\ (pc' # pc \/ idx' # idx))
            => pc' = "done" \/ code' = exitStatus["watcher"]]_vars
    /\ [](pc = "done" /\ exitHow = "poll" /\ idx = 1
            => exitCode = exitStatus["watcher"])
    /\ [](pc = "done" /\ exitHow = "poll" /\ idx = 2
            => exitCode = exitStatus["run"])

C11_Witness ==
    /\ pc = "done"
    /\ exitHow = "poll"
    /\ exitOrder = <<"run", "watcher">>
    /\ exitStatus["run"] = Some(2)
    /\ exitStatus["watcher"] = Some(127)
    /\ exitCode = Some(127)
    /\ idx = 1

\* C12: the interrupt handler only ends the supervisor: it exits with code
\* 0, invokes terminate() on no child and sends no signal, and leaves the
\* state of every child and the process list as they were.
C12_HandlerTouchesNoChild ==
    [][exitHow' = "interrupt" /\ exitHow # "interrupt"
          => /\ pc' = "done"
             /\ exitCode' = Some(0)
             /\ UNCHANGED <<termCalled, sigterm, procState, exitStatus,
                            processes>>]_vars

C12_Witness ==
    /\ pc = "done"
    /\ exitHow = "interrupt"
    /\ BothRunning
    /\ \A c \in Children : ~termCalled[c] /\ ~sigterm[c]
    /\ idx = 2

\* C13: after the terminate() calls the supervisor exits without polling
\* or waiting again: from the terminate loop it only goes on to the exit,
\* `code` is not reassigned, the exit is enabled whatever the sibling does,
\* and under fair scheduling it is reached even if the sibling never ends.
C13_FireAndForget ==
    /\ [][(pc \in {"term", "exit"}) => (pc' \in {"term", "exit", "done"})]_vars
    /\ [][(pc \in {"term", "exit"}) => code' = code /\ idx' = idx]_vars
    /\ [](pc = "exit" /\ ~sigPending => ENABLED Exit)
    /\ (pc = "term" ~> pc = "done")

C13_Witness ==
    /\ pc = "done"
    /\ exitHow = "poll"
    /\ procState["run"] = "running"
    /\ termCalled["run"]
    /\ sigterm["run"]
    /\ exitCode = Some(2)

\* C14 (as stated): the build completes before any child is launched, the
\* handler is installed after the children have been launched, and the
\* poll loop starts only after the handler is installed.
C14_HandlerAfterLaunch ==
    /\ (\E c \in Children : procState[c] # "unstarted") => build = "finished"
    /\ handlerInstalled => \A c \in Children : procState[c] # "unstarted"
    /\ InLoop => handlerInstalled

\* C14 (amended): the handler is installed first, before the build starts;
\* the build completes before any child is launched; the watcher is
\* launched before run; the poll loop starts only after both launches,
\* with the handler installed.
C14_HandlerFirst ==
    /\ build # "none" => handlerInstalled
    /\ pc # "install" /\ exitHow # "fault" => handlerInstalled
    /\ (\E c \in Children : procState[c] # "unstarted") => build = "finished"
    /\ procState["run"] # "unstarted" => procState["watcher"] # "unstarted"
    /\ InLoop => /\ handlerInstalled
                 /\ \A c \in Children : procState[c] \in {"running", "exited"}

C14_Witness ==
    /\ handlerInstalled
    /\ build = "running"
    /\ \A c \in Children : procState[c] = "unstarted"
    /\ sigPending

\* C15: a SIGINT delivered (handler installed) after a child has exited and
\* before the supervisor's sys.exit(code) makes the supervisor exit with
\* code 0 through the handler, not with the child's code, and issues no
\* further terminate() call.
C15_LateInterruptWins ==
    /\ [](interrupted /\ handlerInstalled /\ ~sigClean /\ pc = "done"
            => exitHow = "interrupt" /\ exitCode = Some(0))
    /\ [][sigPending => UNCHANGED <<termCalled, sigterm, code, idx, j>>]_vars

C15_Witness ==
    /\ pc = "done"
    /\ exitHow = "interrupt"
    /\ ~sigClean
    /\ exitCode = Some(0)
    /\ code = Some(1)
    /\ exitStatus["watcher"] = Some(1)
    /\ termCalled["watcher"]
    /\ procState["run"] = "running"
    /\ ~termCalled["run"]

\* C16: when the watcher has been launched and the launch of run fails, the
\* supervisor crashes without ever invoking terminate() on the watcher or
\* signalling it; the failing step leaves the watcher as it was.
C16_WatcherOrphaned ==
    /\ [](procState["run"] = "failed"
            => /\ pc = "done"
               /\ exitHow = "fault"
               /\ procState["watcher"] \in {"running", "exited"}
               /\ ~termCalled["watcher"]
               /\ ~sigterm["watcher"])
    /\ [][procState'["run"] = "failed" /\ procState["run"] # "failed"
            => procState'["watcher"] = procState["watcher"]]_vars

C16_Witness ==
    /\ procState["run"] = "failed"
    /\ procState["watcher"] = "running"
    /\ ~termCalled["watcher"]
    /\ ~sigterm["watcher"]
    /\ exitHow = "fault"

\* C17: the supervisor exits with the value the detecting poll stored in
\* `code`: the terminate loop, which rebinds p, does not change it, so the
\* exit code is the detected handle's status also when p ends up bound to
\* another handle.
C17_CapturedCodeExits ==
    /\ [][pc = "term" /\ p' # p => code' = code /\ code # None]_vars
    /\ [][pc = "exit" /\ exitHow' = "poll"
            => exitCode' = code /\ code = exitStatus[DetectedHandle]]_vars
    /\ [](pc = "done" /\ exitHow = "poll" /\ p # Some(DetectedHandle)
            => exitCode = exitStatus[DetectedHandle] /\ exitCode # None)

C17_Witness ==
    /\ pc = "done"
    /\ exitHow = "poll"
    /\ DetectedHandle = "watcher"
    /\ p = Some("run")
    /\ exitCode = Some(2)
    /\ exitStatus["run"] = Some(-15)

====
